---------------------------- MODULE Spec2Model ----------------------------
(***************************************************************************)
(* A model of src/PCA.ipynb: the catalog builder create_facedb, the pixel  *)
(* loader get_pixel_data, the array glue (strided downsampling, flatten,   *)
(* reshape) and the top-to-bottom run of the notebook's cells.             *)
(*                                                                         *)
(* Text is modelled as sequences of one-character strings, so that glob    *)
(* matching, rpartition, the regular expression and str.replace are        *)
(* computed character by character.  Arrays are records [shape, at] with  *)
(* 0-based indexing as in numpy.  Gray values are fixed-point: the weights *)
(* 0.2989, 0.5870, 0.1140 are scaled by 10^4.                              *)
(***************************************************************************)
EXTENDS Integers, Sequences, FiniteSets, TLC

VARIABLES
    \* ---- filesystem and catalog (create_facedb)
    dir,            \* the directory passed to create_facedb
    listing,        \* the directory's entries, in enumeration order
    disk,           \* disk[i]: the image stored in entry listing[i]
    facedb,         \* Some(the catalog, a sequence of rows), or Unbound
    cat_pc,         \* "start" | "returned" | "raised" | "off"
    cat_err,        \* the exception create_facedb raised, or None
    \* ---- get_pixel_data and the two bindings that follow its call
    face_ids,       \* the argument of get_pixel_data
    pos,            \* 1-based position in face_ids of the current id
    im,             \* the local im: Some([file, at]), or None
    data_list,      \* the local data_list
    open_fps,       \* file handles currently open: set of [file, at]
    open_log,       \* ids whose image Image.open was called on, in order
    pc,             \* position inside the loader cell
    err,            \* the uncaught exception, or None
    image_list,     \* global image_list, or Unbound
    image_shape,    \* global image_shape, or Unbound
    \* ---- array glue checked on its own
    arr_op,         \* "downsample" | "flatten" | "off"
    arr_in,         \* input array
    arr_arg,        \* stride, or the first dimension asked of reshape
    arr_out,        \* result, or None
    arr_back,       \* rows reshaped back to image_shape, or None
    \* ---- top-to-bottom run of the notebook, shapes only
    nb              \* record of the notebook's globals, see NbInit

cat_vars == <<dir, listing, disk, facedb, cat_pc, cat_err>>
load_vars == <<face_ids, pos, im, data_list, open_fps, open_log, pc, err,
               image_list, image_shape>>
arr_vars == <<arr_op, arr_in, arr_arg, arr_out, arr_back>>
vars == <<cat_vars, load_vars, arr_vars, nb>>

\* Optional values.
None == [ok |-> FALSE]
Unbound == [ok |-> FALSE]
Some(x) == [ok |-> TRUE, v |-> x]
IsNone(o) == ~o.ok
NaN == <<"NaN">>

(***************************************************************************)
(* Bounds of the model.                                                    *)
(***************************************************************************)
MaxFiles == 2
MaxIds == 2
MaxM == 4
MaxStride == 3
MaxN == 2
MaxH == 2
MaxW == 3

(***************************************************************************)
(* Text.                                                                   *)
(***************************************************************************)
Digits == {"0", "1", "2", "3", "4", "5", "6", "7", "8", "9"}

SLASH == <<"/">>
JPG == <<".", "j", "p", "g">>
JSON == <<".", "j", "s", "o", "n">>
GP == <<"g", "e", "n", "e", "r", "a", "t", "e", "d", ".",
        "p", "h", "o", "t", "o", "s">>
GP_SEG == SLASH \o GP \o SLASH
GPM_SEG == SLASH \o GP \o <<"_", "m", "e", "t", "a", "d", "a", "t", "a">> \o SLASH

Id7(d) == <<"0", "0", "0", "0", "0", "0", d>>

StartsWith(s, p) ==
    Len(s) >= Len(p) /\ SubSeq(s, 1, Len(p)) = p

EndsWith(s, p) ==
    Len(s) >= Len(p) /\ SubSeq(s, Len(s) - Len(p) + 1, Len(s)) = p

\* Python str.replace(old, new): every non-overlapping occurrence, left to right.
RECURSIVE str_replace(_, _, _)
str_replace(s, old, new) ==
    IF Len(s) < Len(old) THEN s
    ELSE IF StartsWith(s, old)
         THEN new \o str_replace(SubSeq(s, Len(old) + 1, Len(s)), old, new)
         ELSE <<Head(s)>> \o str_replace(Tail(s), old, new)

\* Python str.rpartition(sep) for a one-character sep: split at the last sep.
RECURSIVE LastIndexOf(_, _, _)
LastIndexOf(s, c, i) ==
    IF i = 0 THEN 0
    ELSE IF s[i] = c THEN i ELSE LastIndexOf(s, c, i - 1)

str_rpartition(s, c) ==
    LET i == LastIndexOf(s, c, Len(s)) IN
    IF i = 0 THEN <<<< >>, << >>, s>>
    ELSE <<SubSeq(s, 1, i - 1), <<c>>, SubSeq(s, i + 1, Len(s))>>

\* The regular expression _(\d{7})[_.] matched at position p of s.
MatchAt(s, p) ==
    /\ p + 8 <= Len(s)
    /\ s[p] = "_"
    /\ \A k \in 1..7 : s[p + k] \in Digits
    /\ s[p + 8] \in {"_", "."}

\* Series.str.extract: group 1 of the leftmost match, NaN when none matches.
RECURSIVE ExtractFrom(_, _)
ExtractFrom(s, p) ==
    IF p > Len(s) THEN NaN
    ELSE IF MatchAt(s, p) THEN SubSeq(s, p + 1, p + 7)
         ELSE ExtractFrom(s, p + 1)

str_extract(s) == ExtractFrom(s, 1)

\* fnmatch of a name against a pattern whose only wildcard is "*".
RECURSIVE fnmatch(_, _)
fnmatch(name, pat) ==
    IF pat = << >> THEN name = << >>
    ELSE IF Head(pat) = "*"
         THEN \/ fnmatch(name, Tail(pat))
              \/ (name # << >> /\ fnmatch(Tail(name), pat))
         ELSE /\ name # << >>
              /\ Head(name) = Head(pat)
              /\ fnmatch(Tail(name), Tail(pat))

\* glob.glob(dir + "/*.jpg"): the entries of dir, in enumeration order, whose
\* name matches *.jpg; a leading "." is not matched by "*".  Each result is
\* dir + "/" + name.
globmatch_hidden(name) == fnmatch(name, <<"*">> \o JPG)

globmatch(name) ==
    /\ name # << >>
    /\ Head(name) # "."
    /\ fnmatch(name, <<"*">> \o JPG)

RECURSIVE glob(_, _)
glob(d, entries) ==
    IF entries = << >> THEN << >>
    ELSE IF globmatch(Head(entries))
         THEN <<d \o SLASH \o Head(entries)>> \o glob(d, Tail(entries))
         ELSE glob(d, Tail(entries))

(***************************************************************************)
(* create_facedb.                                                          *)
(***************************************************************************)
jsonfile_of(fullpath) ==
    str_replace(str_replace(fullpath, GP_SEG, GPM_SEG), JPG, JSON)

facedb_row(fullpath) ==
    LET filename == str_rpartition(fullpath, "/")[3] IN
    [fullpath |-> fullpath,
     filename |-> filename,
     faceid   |-> str_extract(filename),
     jsonfile |-> jsonfile_of(fullpath)]

create_facedb(d, entries) ==
    LET face_photos == glob(d, entries) IN
    [k \in 1..Len(face_photos) |-> facedb_row(face_photos[k])]

\* With no matching file the column "fullpath" is empty, and what the string
\* accessor does with an empty column depends on the pandas in use: the column
\* is float64 and .str raises AttributeError (line 61), or rpartition gives a
\* frame without columns and values[:, 2] raises IndexError (line 62), or an
\* empty catalog is returned.
EmptyOutcomes ==
    {[pc |-> "raised", err |-> Some([kind |-> "AttributeError", line |-> 61])],
     [pc |-> "raised", err |-> Some([kind |-> "IndexError", line |-> 62])],
     [pc |-> "returned", err |-> None]}

CreateFacedb ==
    /\ cat_pc = "start"
    /\ LET db == create_facedb(dir, listing) IN
       IF db = << >>
       THEN \E o \in EmptyOutcomes :
                /\ cat_pc' = o.pc
                /\ cat_err' = o.err
                /\ facedb' = IF o.pc = "returned" THEN Some(db) ELSE Unbound
       ELSE /\ cat_pc' = "returned"
            /\ cat_err' = None
            /\ facedb' = Some(db)
    /\ UNCHANGED <<dir, listing, disk, load_vars, arr_vars, nb>>


(***************************************************************************)
(* Arrays: [shape |-> <<d1, ...>>, at |-> nested functions, 0-based].      *)
(***************************************************************************)
Side == 256
downsample == 5
rgb_weights == <<2989, 5870, 1140>>

RECURSIVE Size(_)
Size(shape) ==
    IF shape = << >> THEN 1 ELSE Head(shape) * Size(Tail(shape))

\* C order (row-major): the flat index of entry (i, j) of a grid of c columns.
Ravel2_colmajor(i, j, r, c) == j * r + i

Ravel2(i, j, r, c) == i * c + j

\* The element at C-order flat index f.
FlatAt(a, f) ==
    LET sh == a.shape IN
    CASE Len(sh) = 1 -> a.at[f]
      [] Len(sh) = 2 -> a.at[f \div sh[2]][f % sh[2]]
      [] Len(sh) = 3 -> a.at[f \div (sh[2] * sh[3])][(f \div sh[3]) % sh[2]][f % sh[3]]

\* reshape succeeds exactly when the sizes agree (ValueError otherwise).
ReshapeOk_anyrows(shape, r, c) == Len(shape) = 1 /\ shape[1] % c = 0

ReshapeOk(shape, r, c) == Size(shape) = r * c

\* ndarray.reshape(r, c): the same flat data under a new 2-D shape, or None.
reshape(a, r, c) ==
    IF ~ReshapeOk(a.shape, r, c) THEN None
    ELSE Some([shape |-> <<r, c>>,
               at |-> [i \in 0..(r - 1) |->
                         [j \in 0..(c - 1) |-> FlatAt(a, Ravel2(i, j, r, c))]]])

\* ndarray.reshape(r, -1): the second dimension is inferred; None (ValueError)
\* when r is 0 or does not divide the size.
infer_shape(shape, r) ==
    IF r = 0 \/ Size(shape) % r # 0 THEN None
    ELSE Some(<<r, Size(shape) \div r>>)

reshape_infer(a, r) ==
    LET s == infer_shape(a.shape, r) IN
    IF IsNone(s) THEN None ELSE reshape(a, s.v[1], s.v[2])

\* The indices a slice [::step] takes out of 0..n-1: 0, step, 2*step, ...
RECURSIVE SliceFrom(_, _, _)
SliceFrom(i, n, step) ==
    IF i >= n THEN << >> ELSE <<i>> \o SliceFrom(i + step, n, step)

SliceIdx_skipfirst(n, step) == SliceFrom(step, n, step)

SliceIdx(n, step) == SliceFrom(0, n, step)

\* [::s, ::s] of the n1 x n2 grid whose entry (i, j) is At(i, j).
StridedOf(At(_, _), n1, n2, s) ==
    LET rows == SliceIdx(n1, s)
        cols == SliceIdx(n2, s)
    IN  [shape |-> <<Len(rows), Len(cols)>>,
         at |-> [i \in 0..(Len(rows) - 1) |->
                   [j \in 0..(Len(cols) - 1) |-> At(rows[i + 1], cols[j + 1])]]]

\* g[::s, ::s] of a 2-D array.
Strided(g, s) ==
    StridedOf(LAMBDA i, j : g.at[i][j], g.shape[1], g.shape[2], s)

\* One row of a 2-D array, as a 1-D array.
Row(a, k) == [shape |-> <<a.shape[2]>>, at |-> a.at[k]]

\* np.array(list of 2-D arrays): the stack, in list order.  An empty list
\* gives an array of shape (0,); unequal shapes do not stack (None).
np_array_reversed(l) ==
    IF l = << >> THEN Some([shape |-> <<0>>, at |-> << >>])
    ELSE Some([shape |-> <<Len(l)>> \o l[1].shape,
               at |-> [k \in 0..(Len(l) - 1) |-> l[Len(l) - k].at]])

np_array(l) ==
    IF l = << >> THEN Some([shape |-> <<0>>, at |-> << >>])
    ELSE IF \E k \in 1..Len(l) : l[k].shape # l[1].shape THEN None
    ELSE Some([shape |-> <<Len(l)>> \o l[1].shape,
               at |-> [k \in 0..(Len(l) - 1) |-> l[k + 1].at]])

(***************************************************************************)
(* Image files.  status: "ok", "unidentified" (Image.open fails),          *)
(* "truncated" (decoding stops inside the read loop), "broken" (the         *)
(* decoder reports an error after the data was read).  A decoded image of  *)
(* width*height pixels is never held as a value: its pixels are computed   *)
(* where they are read.                                                    *)
(***************************************************************************)
Img(st, b, w, h, sd) ==
    [status |-> st, bands |-> b, width |-> w, height |-> h, seed |-> sd]

ImageKinds ==
    {Img("ok", 3, Side, Side, 0),
     Img("ok", 3, Side, Side, 1),
     Img("ok", 3, 2 * Side, Side \div 2, 0),
     Img("ok", 3, Side - 1, Side, 0),
     Img("ok", 1, Side, Side, 0),
     Img("ok", 1, 3, 1, 0),
     Img("unidentified", 3, Side, Side, 0),
     Img("truncated", 3, Side, Side, 0),
     Img("broken", 3, Side, Side, 0)}

\* Band b of pixel k of a decoded image.
Band(f, k, b) ==
    CASE b = 0 -> (k + f.seed) % 256
      [] b = 1 -> (k \div f.width) % 256
      [] OTHER -> (37 * f.seed + b) % 256

\* Line 104, np.array(im.getdata()): shape (N, bands), or (N,) for one band.
im_data_shape(f) ==
    IF f.bands = 1 THEN <<f.width * f.height>>
    ELSE <<f.width * f.height, f.bands>>

im_data_at(f, k) ==
    IF f.bands = 1 THEN Band(f, k, 0)
    ELSE [b \in 0..(f.bands - 1) |-> Band(f, k, b)]

RECURSIVE DotFrom(_, _, _)
DotFrom(x, w, b) ==
    IF b > Len(w) THEN 0 ELSE x[b - 1] * w[b] + DotFrom(x, w, b + 1)

\* Line 106, np.dot(im_data, rgb_weights): the shape of the product, or None
\* (ValueError) when the last dimension of im_data is not Len(w).  A 1-D
\* im_data of Len(w) entries gives a scalar.
np_dot_shape(shape, w) ==
    IF shape[Len(shape)] # Len(w) THEN None
    ELSE Some(SubSeq(shape, 1, Len(shape) - 1))

\* Entry k of the product for a 2-D im_data.
np_dot_at(f, k) == DotFrom(im_data_at(f, k), rgb_weights, 1)

\* Lines 104-107 for a decoded image: the downsampled gray grid, or None when
\* np.dot or reshape raises ValueError.
gray_grid(f) ==
    LET dotted == np_dot_shape(im_data_shape(f), rgb_weights) IN
    IF IsNone(dotted) THEN None
    ELSE IF ~ReshapeOk(dotted.v, Side, Side) THEN None
    ELSE Some(StridedOf(LAMBDA i, j : np_dot_at(f, Ravel2(i, j, Side, Side)),
                        Side, Side, downsample))

\* gray_grid depends on the file alone; it is tabulated once per image.
GrayGrids == [f \in ImageKinds |-> gray_grid(f)]

(***************************************************************************)
(* get_pixel_data(face_ids) and the bindings of lines 110-111.             *)
(***************************************************************************)
\* The entry of the directory stored under a catalogued path.
FileOf(path) ==
    CHOOSE i \in 1..Len(listing) : dir \o SLASH \o listing[i] = path

\* An exception nothing catches: the pass stops where it is.
Raise_swallow(kind, line) ==
    /\ err' = err
    /\ IF pos < Len(face_ids)
       THEN pos' = pos + 1 /\ pc' = "open"
       ELSE pos' = pos /\ pc' = "return"
    /\ UNCHANGED <<face_ids, data_list, image_list, image_shape>>

Raise(kind, line) ==
    /\ pc' = "failed"
    /\ err' = Some([kind |-> kind, line |-> line])
    /\ UNCHANGED <<face_ids, pos, data_list, image_list, image_shape>>

\* Line 101.
Call ==
    /\ pc = "call"
    /\ data_list' = << >>
    /\ pos' = 1
    /\ pc' = IF face_ids = << >> THEN "return" ELSE "open"
    /\ UNCHANGED <<face_ids, im, open_fps, open_log, err, image_list, image_shape>>
    /\ UNCHANGED <<cat_vars, arr_vars, nb>>

\* The handles left open once the image object o is no longer referenced.
Released(o, fps) == IF IsNone(o) THEN fps ELSE fps \ {o.v}

\* Lines 102-103: facedb["fullpath"][id], then Image.open.  Image.open opens
\* the file and reads its header; when no format accepts it the file is
\* closed again and the error raised.  Rebinding im drops the previous image.
Open ==
    /\ pc = "open"
    /\ LET id == face_ids[pos] IN
       IF id < 0 \/ id >= Len(facedb.v)
       THEN /\ Raise("KeyError", 103)
            /\ UNCHANGED <<im, open_fps, open_log>>
       ELSE LET f == FileOf(facedb.v[id + 1].fullpath)
                h == [file |-> f, at |-> pos]
            IN  /\ open_log' = Append(open_log, id)
                /\ IF disk[f].status = "unidentified"
                   THEN /\ Raise("UnidentifiedImageError", 103)
                        /\ UNCHANGED <<im, open_fps>>
                   ELSE /\ im' = Some(h)
                        /\ open_fps' = Released(im, open_fps \cup {h})
                        /\ pc' = "process"
                        /\ UNCHANGED <<face_ids, pos, data_list, err,
                                       image_list, image_shape>>
    /\ UNCHANGED <<cat_vars, arr_vars, nb>>

\* The handles open after im.getdata() has loaded the image: the loader of a
\* single-frame file closes the file it opened once the data is read, also
\* when the decoder then reports an error; an exception raised inside the
\* read loop leaves it open.
AfterLoad(f, h, fps) ==
    IF f.status = "truncated" THEN fps ELSE fps \ {h}

\* Lines 104-107.
Process ==
    /\ pc = "process"
    /\ LET h == im.v
           f == disk[h.file]
       IN  /\ open_fps' = AfterLoad(f, h, open_fps)
           /\ IF f.status # "ok"
              THEN Raise("OSError", 104)
              ELSE LET g == GrayGrids[f] IN
                   IF IsNone(g)
                   THEN Raise("ValueError", 106)
                   ELSE /\ data_list' = Append(data_list, g.v)
                        /\ IF pos < Len(face_ids)
                           THEN pos' = pos + 1 /\ pc' = "open"
                           ELSE pos' = pos /\ pc' = "return"
                        /\ UNCHANGED <<face_ids, err, image_list, image_shape>>
    /\ UNCHANGED <<im, open_log>>
    /\ UNCHANGED <<cat_vars, arr_vars, nb>>

\* Lines 108 and 110: the stack is returned and bound to image_list; the
\* locals of the call are dropped.
Return ==
    /\ pc = "return"
    /\ LET stack == np_array(data_list) IN
       IF IsNone(stack)
       THEN /\ Raise("ValueError", 108)
            /\ UNCHANGED <<im, open_fps>>
       ELSE /\ image_list' = stack
            /\ im' = None
            /\ open_fps' = Released(im, open_fps)
            /\ pc' = "line111"
            /\ UNCHANGED <<face_ids, pos, data_list, err, image_shape>>
    /\ UNCHANGED open_log
    /\ UNCHANGED <<cat_vars, arr_vars, nb>>

\* Line 111: image_shape = image_list.shape[1:].
Line111 ==
    /\ pc = "line111"
    /\ image_shape' = Some(Tail(image_list.v.shape))
    /\ pc' = "done"
    /\ UNCHANGED <<face_ids, pos, im, data_list, open_fps, open_log, err, image_list>>
    /\ UNCHANGED <<cat_vars, arr_vars, nb>>


(***************************************************************************)
(* The array glue on its own: gray_image[::s, ::s] (line 107),             *)
(* image_list.reshape(num_images, -1) (line 156) and                       *)
(* row.reshape(image_shape) (lines 198, 230).                              *)
(***************************************************************************)
GridIn(m, c) ==
    [shape |-> <<m, m>>,
     at |-> [i \in 0..(m - 1) |-> [j \in 0..(m - 1) |-> c + i * m + j]]]

StackIn(n, h, w, c) ==
    [shape |-> <<n, h, w>>,
     at |-> [k \in 0..(n - 1) |->
               [i \in 0..(h - 1) |-> [j \in 0..(w - 1) |-> c + (k * h + i) * w + j]]]]

DownsampleStep ==
    /\ arr_op = "downsample"
    /\ arr_out' = Some(Strided(arr_in.v, arr_arg))
    /\ arr_op' = "downsampled"
    /\ UNCHANGED <<arr_in, arr_arg, arr_back>>
    /\ UNCHANGED <<cat_vars, load_vars, nb>>

\* Line 156.
FlattenStep ==
    /\ arr_op = "flatten"
    /\ arr_out' = reshape_infer(arr_in.v, arr_arg)
    /\ arr_op' = IF IsNone(arr_out') THEN "failed" ELSE "flattened"
    /\ UNCHANGED <<arr_in, arr_arg, arr_back>>
    /\ UNCHANGED <<cat_vars, load_vars, nb>>

\* Every row of the flattened matrix reshaped to image_shape (line 111:
\* image_list.shape[1:]).
UnflattenStep ==
    /\ arr_op = "flattened"
    /\ LET shp == Tail(arr_in.v.shape)
           flat == arr_out.v
           back == [k \in 0..(flat.shape[1] - 1) |->
                        reshape(Row(flat, k), shp[1], shp[2])]
       IN  IF \E k \in DOMAIN back : IsNone(back[k])
           THEN arr_back' = None /\ arr_op' = "failed"
           ELSE /\ arr_back' = Some([k \in DOMAIN back |-> back[k].v])
                /\ arr_op' = "restored"
    /\ UNCHANGED <<arr_in, arr_arg, arr_out>>
    /\ UNCHANGED <<cat_vars, load_vars, nb>>

(***************************************************************************)
(* The notebook run top to bottom (Run All: the first uncaught exception   *)
(* stops the run).  Arrays are tracked by shape only: every index check    *)
(* and every validation of the cells below is decided by shapes.  A cell   *)
(* that reads pca or transformed has a position of its own just before     *)
(* the read.                                                               *)
(***************************************************************************)
num_images == 100
n_clusters == 5

Min(a, b) == IF a < b THEN a ELSE b

\* The shape of one grid the loader appends: gray_image[::downsample, ::downsample].
GridShape == <<Len(SliceIdx(Side, downsample)), Len(SliceIdx(Side, downsample))>>

\* PCA(n_components=k).fit(X) for X of shape (n_samples, n_features).
pca_fit(k, X) ==
    IF k < 1 \/ k > Min(X[1], X[2]) THEN None
    ELSE Some([n_components_ |-> k, n_samples |-> X[1], n_features |-> X[2]])

\* pca.transform(X): one row per sample, one column per component.
pca_transform(p, X) == <<X[1], p.n_components_>>

\* pca.inverse_transform(T): None (ValueError) unless T has one column per
\* component.
pca_inverse_transform(p, T) ==
    IF T[2] # p.n_components_ THEN None ELSE Some(<<T[1], p.n_features>>)

NbRaise(cell, line, kind) ==
    nb' = [nb EXCEPT !.cell = "failed",
                     !.err = Some([cell |-> cell, line |-> line, kind |-> kind])]

\* Cell downtown-bonus, line 79: facedb = create_facedb().
NbCreateFacedb ==
    /\ nb.cell = "downtown-bonus"
    /\ IF nb.n_jpg = 0
       THEN \E o \in EmptyOutcomes :
               IF o.pc = "raised"
               THEN NbRaise("downtown-bonus", o.err.v.line, o.err.v.kind)
               ELSE nb' = [nb EXCEPT !.facedb = Some(0), !.cell = "crucial-trade"]
       ELSE nb' = [nb EXCEPT !.facedb = Some(nb.n_jpg), !.cell = "crucial-trade"]
    /\ UNCHANGED <<cat_vars, load_vars, arr_vars>>

\* Cell crucial-trade, lines 102-107 for the next id of range(num_images).
NbLoadImage ==
    /\ nb.cell = "crucial-trade"
    /\ nb.loaded < num_images
    /\ IF nb.loaded >= nb.facedb.v
       THEN NbRaise("crucial-trade", 103, "KeyError")
       ELSE \/ nb' = [nb EXCEPT !.loaded = nb.loaded + 1]
            \/ NbRaise("crucial-trade", 103, "UnidentifiedImageError")
            \/ NbRaise("crucial-trade", 104, "OSError")
            \/ NbRaise("crucial-trade", 106, "ValueError")
    /\ UNCHANGED <<cat_vars, load_vars, arr_vars>>

\* Lines 108-111.
NbLoadDone ==
    /\ nb.cell = "crucial-trade"
    /\ nb.loaded = num_images
    /\ LET shape == IF nb.loaded = 0 THEN <<0>> ELSE <<nb.loaded>> \o GridShape IN
       nb' = [nb EXCEPT !.image_list = Some(shape),
                        !.image_shape = Some(Tail(shape)),
                        !.cell = "fewer-monthly"]
    /\ UNCHANGED <<cat_vars, load_vars, arr_vars>>

\* Cell fewer-monthly, line 130: image_list[9, :].
NbShowImage ==
    /\ nb.cell = "fewer-monthly"
    /\ IF nb.image_list.v[1] <= 9
       THEN NbRaise("fewer-monthly", 130, "IndexError")
       ELSE nb' = [nb EXCEPT !.cell = "based-stick"]
    /\ UNCHANGED <<cat_vars, load_vars, arr_vars>>

\* Cell based-stick, line 156.
NbFlatten ==
    /\ nb.cell = "based-stick"
    /\ LET flat == infer_shape(nb.image_list.v, num_images) IN
       IF IsNone(flat)
       THEN NbRaise("based-stick", 156, "ValueError")
       ELSE nb' = [nb EXCEPT !.image_flattened = flat, !.cell = "swedish-blank"]
    /\ UNCHANGED <<cat_vars, load_vars, arr_vars>>

\* pca = PCA(n_components=k); transformed = pca.fit_transform(image_flattened)
\* then the position `next`; ValueError at `line` when the fit is refused.
fit_transform(s, k, cell, line, next) ==
    LET p == pca_fit(k, s.image_flattened.v) IN
    IF IsNone(p)
    THEN [s EXCEPT !.cell = "failed",
                   !.err = Some([cell |-> cell, line |-> line, kind |-> "ValueError"])]
    ELSE [s EXCEPT !.pca = p,
                   !.transformed = Some(pca_transform(p.v, s.image_flattened.v)),
                   !.cell = next]

\* Cell swedish-blank, lines 176-179.
NbFit ==
    /\ nb.cell = "swedish-blank"
    /\ nb' = fit_transform([nb EXCEPT !.image_selection = 50, !.n_components = 10],
                           10, "swedish-blank", 179, "swedish-blank:180")
    /\ UNCHANGED <<cat_vars, load_vars, arr_vars>>

\* reconstruction = pca.inverse_transform(transformed), then `next`.
inverse_step(s, cell, line, next) ==
    LET r == pca_inverse_transform(s.pca.v, s.transformed.v) IN
    IF IsNone(r)
    THEN [s EXCEPT !.cell = "failed",
                   !.err = Some([cell |-> cell, line |-> line, kind |-> "ValueError"])]
    ELSE [s EXCEPT !.reconstruction = r, !.cell = next]

\* Line 180.
NbReconstruct ==
    /\ nb.cell = "swedish-blank:180"
    /\ nb' = inverse_step(nb, "swedish-blank", 180, "parallel-sudan")
    /\ UNCHANGED <<cat_vars, load_vars, arr_vars>>

\* Cell parallel-sudan, lines 191-196: the next idx of range(0, 50, 10), as
\* long as one of the 5 axes is left; fit with idx + 1 components.
NbReconFit ==
    /\ nb.cell = "parallel-sudan"
    /\ LET idx == 10 * nb.iter IN
       IF idx >= 50 \/ nb.iter >= 5
       THEN nb' = [nb EXCEPT !.iter = 0, !.cell = "encouraging-detroit"]
       ELSE nb' = fit_transform([nb EXCEPT !.image_selection = 50, !.idx = idx],
                                idx + 1, "parallel-sudan", 196, "parallel-sudan:197")
    /\ UNCHANGED <<cat_vars, load_vars, arr_vars>>

\* Lines 197-198: reconstruction[image_selection, :].reshape(image_shape).
NbReconShow ==
    /\ nb.cell = "parallel-sudan:197"
    /\ LET s == inverse_step(nb, "parallel-sudan", 197, "parallel-sudan") IN
       IF s.cell = "failed" THEN nb' = s
       ELSE IF nb.image_selection >= s.reconstruction.v[1]
       THEN NbRaise("parallel-sudan", 198, "IndexError")
       ELSE IF s.reconstruction.v[2] # Size(nb.image_shape.v)
       THEN NbRaise("parallel-sudan", 198, "ValueError")
       ELSE nb' = [s EXCEPT !.iter = nb.iter + 1]
    /\ UNCHANGED <<cat_vars, load_vars, arr_vars>>

\* Cell encouraging-detroit, lines 223-226.  component_list, 9 sorted draws
\* from range(n_components), is revealed one element at a time by NbEigenNext.
encouraging_detroit_nofit(s) ==
    [s EXCEPT !.n_components = 50, !.iter = 0, !.idx = 0,
              !.cell = "encouraging-detroit:229"]

encouraging_detroit(s) ==
    fit_transform([s EXCEPT !.n_components = 50, !.iter = 0, !.idx = 0],
                  50, "encouraging-detroit", 226, "encouraging-detroit:229")

NbEigenFit ==
    /\ nb.cell = "encouraging-detroit"
    /\ nb' = encouraging_detroit(nb)
    /\ UNCHANGED <<cat_vars, load_vars, arr_vars>>

\* Line 229: the next element of the sorted component_list.
NbEigenNext ==
    /\ nb.cell = "encouraging-detroit:229"
    /\ IF nb.iter >= 9
       THEN nb' = [nb EXCEPT !.iter = 0, !.idx = 0, !.cell = "expressed-explosion"]
       ELSE \E i \in nb.idx..(nb.n_components - 1) :
               nb' = [nb EXCEPT !.idx = i, !.cell = "encouraging-detroit:230"]
    /\ UNCHANGED <<cat_vars, load_vars, arr_vars>>

\* Line 230: pca.components_[idx, :].reshape(image_shape).
NbEigenShow ==
    /\ nb.cell = "encouraging-detroit:230"
    /\ IF nb.idx >= nb.pca.v.n_components_
       THEN NbRaise("encouraging-detroit", 230, "IndexError")
       ELSE IF nb.pca.v.n_features # Size(nb.image_shape.v)
       THEN NbRaise("encouraging-detroit", 230, "ValueError")
       ELSE nb' = [nb EXCEPT !.iter = nb.iter + 1, !.cell = "encouraging-detroit:229"]
    /\ UNCHANGED <<cat_vars, load_vars, arr_vars>>

\* Cell expressed-explosion, lines 252-255: the next idx of range(n_components).
NbSynthNext ==
    /\ nb.cell = "expressed-explosion"
    /\ LET s == [nb EXCEPT !.n_components = 50, !.weights = Some(50)] IN
       IF nb.iter >= s.n_components
       THEN nb' = [s EXCEPT !.iter = 0, !.cell = "front-infrastructure"]
       ELSE nb' = [s EXCEPT !.idx = nb.iter, !.cell = "expressed-explosion:256"]
    /\ UNCHANGED <<cat_vars, load_vars, arr_vars>>

\* Line 256: weights[idx], pca.components_[idx, :], pca.explained_variance_[idx].
NbSynthAdd ==
    /\ nb.cell = "expressed-explosion:256"
    /\ IF nb.idx >= nb.weights.v \/ nb.idx >= nb.pca.v.n_components_
       THEN NbRaise("expressed-explosion", 256, "IndexError")
       ELSE IF nb.pca.v.n_features # Size(nb.image_shape.v)
       THEN NbRaise("expressed-explosion", 256, "ValueError")
       ELSE nb' = [nb EXCEPT !.iter = nb.iter + 1, !.cell = "expressed-explosion"]
    /\ UNCHANGED <<cat_vars, load_vars, arr_vars>>

\* Cell front-infrastructure, line 279: transformed[:, 0], transformed[:, 1].
NbScatter ==
    /\ nb.cell = "front-infrastructure"
    /\ IF nb.transformed.v[2] < 2
       THEN NbRaise("front-infrastructure", 279, "IndexError")
       ELSE nb' = [nb EXCEPT !.cell = "realistic-grocery"]
    /\ UNCHANGED <<cat_vars, load_vars, arr_vars>>

\* Cell realistic-grocery, line 302: KMeans(n_clusters=5).fit_predict(transformed).
NbKMeans ==
    /\ nb.cell = "realistic-grocery"
    /\ IF nb.transformed.v[1] < n_clusters
       THEN NbRaise("realistic-grocery", 302, "ValueError")
       ELSE nb' = [nb EXCEPT !.cluster_predictions = Some(<<nb.transformed.v[1]>>),
                             !.cell = "aboriginal-offset"]
    /\ UNCHANGED <<cat_vars, load_vars, arr_vars>>

(***************************************************************************)
(* Initial states and specifications.                                      *)
(***************************************************************************)
CatOff ==
    /\ dir = << >>
    /\ listing = << >>
    /\ disk = << >>
    /\ facedb = Unbound
    /\ cat_pc = "off"
    /\ cat_err = None

LoadOff ==
    /\ face_ids = << >>
    /\ pos = 0
    /\ im = None
    /\ data_list = << >>
    /\ open_fps = {}
    /\ open_log = << >>
    /\ pc = "off"
    /\ err = None
    /\ image_list = Unbound
    /\ image_shape = Unbound

ArrOff ==
    /\ arr_op = "off"
    /\ arr_in = None
    /\ arr_arg = 0
    /\ arr_out = None
    /\ arr_back = None

NbOff == nb = [cell |-> "off"]

\* Directory entries: with and without an embedded identifier, with another
\* extension, hidden, with ".jpg" inside the name.
NamePool ==
    {<<"a", "_">> \o Id7("1") \o <<"_", "b">> \o JPG,
     <<"c", "_">> \o Id7("2") \o JPG,
     <<"c">> \o JPG,
     <<"a", "_">> \o Id7("3") \o <<"_", "b">> \o JSON,
     <<".", "h", "_">> \o Id7("4") \o <<"_">> \o JPG,
     <<"x">> \o JPG \o <<"_">> \o Id7("5") \o <<"_", "y">> \o JPG,
     <<"a">> \o Id7("6") \o JPG}

DirPool ==
    {<<"/", "d", "/">> \o GP,
     SLASH \o GP \o SLASH \o GP,
     <<"/", "e">> \o JPG \o SLASH \o GP,
     <<"/", "d">>}

Listings ==
    {l \in UNION {[1..n -> NamePool] : n \in 0..MaxFiles} :
        \A i, j \in DOMAIN l : l[i] = l[j] => i = j}

InitCatalog ==
    /\ dir \in DirPool
    /\ listing \in Listings
    /\ disk = [i \in DOMAIN listing |-> Img("ok", 3, Side, Side, 0)]
    /\ facedb = Unbound
    /\ cat_pc = "start"
    /\ cat_err = None
    /\ LoadOff /\ ArrOff /\ NbOff

NextCatalog == CreateFacedb

SpecCatalog == InitCatalog /\ [][NextCatalog]_vars

\* The loader runs over a catalog of two files, called with every short
\* sequence of row identifiers, one of them past the end of the catalog.
InitLoader ==
    /\ dir = <<"/", "d", "/">> \o GP
    /\ listing = << <<"a", "_">> \o Id7("1") \o <<"_", "b">> \o JPG,
                    <<"c", "_">> \o Id7("2") \o JPG >>
    /\ disk \in [DOMAIN listing -> ImageKinds]
    /\ facedb = Some(create_facedb(dir, listing))
    /\ cat_pc = "returned"
    /\ cat_err = None
    /\ face_ids \in UNION {[1..n -> 0..Len(listing)] : n \in 0..MaxIds}
    /\ pos = 0
    /\ im = None
    /\ data_list = << >>
    /\ open_fps = {}
    /\ open_log = << >>
    /\ pc = "call"
    /\ err = None
    /\ image_list = Unbound
    /\ image_shape = Unbound
    /\ ArrOff /\ NbOff

NextLoader == Call \/ Open \/ Process \/ Return \/ Line111

SpecLoader == InitLoader /\ [][NextLoader]_vars

InitArrays ==
    /\ CatOff /\ LoadOff /\ NbOff
    /\ arr_out = None
    /\ arr_back = None
    /\ \/ /\ arr_op = "downsample"
          /\ \E m \in (1..MaxM) \cup {10}, c \in 0..1 : arr_in = Some(GridIn(m, c))
          /\ arr_arg \in 1..MaxStride
       \/ /\ arr_op = "flatten"
          /\ \E n \in 1..MaxN, h \in 1..MaxH, w \in 1..MaxW, c \in 0..1 :
                arr_in = Some(StackIn(n, h, w, c))
          /\ arr_arg \in 0..(MaxN + 1)

NextArrays == DownsampleStep \/ FlattenStep \/ UnflattenStep

SpecArrays == InitArrays /\ [][NextArrays]_vars

\* The run starts with a fresh kernel; the default directory holds n_jpg
\* entries matching *.jpg.
NbEntries == {0, 1, num_images - 1, num_images, num_images + 1}

InitNotebook ==
    /\ CatOff /\ LoadOff /\ ArrOff
    /\ \E n \in NbEntries :
          nb = [cell |-> "downtown-bonus", n_jpg |-> n, err |-> None,
                facedb |-> Unbound, loaded |-> 0,
                image_list |-> Unbound, image_shape |-> Unbound,
                image_flattened |-> Unbound, image_selection |-> 0,
                n_components |-> 0, pca |-> Unbound, transformed |-> Unbound,
                reconstruction |-> Unbound, idx |-> 0, iter |-> 0,
                weights |-> Unbound, cluster_predictions |-> Unbound]

NextNotebook ==
    \/ NbCreateFacedb \/ NbLoadImage \/ NbLoadDone \/ NbShowImage \/ NbFlatten
    \/ NbFit \/ NbReconstruct \/ NbReconFit \/ NbReconShow
    \/ NbEigenFit \/ NbEigenNext \/ NbEigenShow
    \/ NbSynthNext \/ NbSynthAdd \/ NbScatter \/ NbKMeans

SpecNotebook == InitNotebook /\ [][NextNotebook]_vars

(***************************************************************************)
(* Properties.                                                             *)
(***************************************************************************)
PathOf(i) == dir \o SLASH \o listing[i]

\* A name with 7 consecutive digits starting at position p.
Digits7At(name, p) ==
    /\ p + 6 <= Len(name)
    /\ \A k \in 0..6 : name[p + k] \in Digits

HasDigits7(name) == \E p \in 1..Len(name) : Digits7At(name, p)

\* An entry that glob's pattern *.jpg selects: the name ends in ".jpg" and
\* does not start with ".".
JpgEntry(name) == EndsWith(name, JPG) /\ Head(name) # "."

RowsOf(i) == {k \in DOMAIN facedb.v : facedb.v[k].fullpath = PathOf(i)}

AfterLastSlash(path) ==
    LET k == CHOOSE k \in 0..Len(path) :
                /\ k = 0 \/ path[k] = "/"
                /\ \A j \in (k + 1)..Len(path) : path[j] # "/"
    IN  SubSeq(path, k + 1, Len(path))

\* The path with only its last directory segment, when that segment is
\* generated.photos, renamed to generated.photos_metadata, and only the
\* extension .jpg of the file name replaced by .json.
ExpectedJson(path) ==
    LET name == AfterLastSlash(path)
        dpart == SubSeq(path, 1, Len(path) - Len(name) - 1)
        dnew == IF EndsWith(dpart, SLASH \o GP)
                THEN dpart \o <<"_", "m", "e", "t", "a", "d", "a", "t", "a">>
                ELSE dpart
        nnew == IF EndsWith(name, JPG)
                THEN SubSeq(name, 1, Len(name) - Len(JPG)) \o JSON
                ELSE name
    IN  dnew \o SLASH \o nnew

\* C2 as stated: every row's filename is the part of the full path after its
\* last "/", its face id is the 7-digit string embedded in the filename, and
\* its metadata path is the full path with only the directory segment and
\* only the extension replaced.
C2_RowFields ==
    cat_pc = "returned" =>
        \A k \in DOMAIN facedb.v :
            LET row == facedb.v[k] IN
            /\ row.filename = AfterLastSlash(row.fullpath)
            /\ HasDigits7(row.filename) =>
                  \E p \in 1..Len(row.filename) :
                      /\ Digits7At(row.filename, p)
                      /\ row.faceid = SubSeq(row.filename, p, p + 6)
            /\ row.jsonfile = ExpectedJson(row.fullpath)

\* ceil(m / s).
Ceil(m, s) == CHOOSE q \in 0..m : q * s >= m /\ (q - 1) * s < m

\* C3: gray_image[::s, ::s] of an m x m grid is a ceil(m/s) x ceil(m/s) grid
\* whose entry (i, j) is the original's entry (i*s, j*s); 256 with stride 5
\* gives 52 x 52.
C3_Downsample ==
    /\ GridShape = <<52, 52>>
    /\ arr_op = "downsampled" =>
          LET m == arr_in.v.shape[1]
              s == arr_arg
              n == Ceil(m, s)
              out == arr_out.v
          IN  /\ out.shape = <<n, n>>
              /\ DOMAIN out.at = 0..(n - 1)
              /\ \A i \in 0..(n - 1) :
                    /\ DOMAIN out.at[i] = 0..(n - 1)
                    /\ \A j \in 0..(n - 1) : out.at[i][j] = arr_in.v.at[i * s][j * s]

\* A grid whose side is no multiple of the stride, downsampled.
C3_Witness ==
    /\ arr_op = "downsampled"
    /\ arr_in.v.shape[1] = 4
    /\ arr_arg = 3
    /\ arr_out.v.shape = <<2, 2>>

\* The image stored under the k-th identifier of face_ids.
FileOfId(k) == disk[FileOf(facedb.v[face_ids[k] + 1].fullpath)]

\* C4: when get_pixel_data returns, the stack has one grid per identifier,
\* the k-th grid is the one loaded from the k-th identifier, and all grids
\* have the same shape.
C4_StackInOrder ==
    pc \in {"line111", "done"} =>
        /\ image_list.ok
        /\ image_list.v.shape[1] = Len(face_ids)
        /\ DOMAIN image_list.v.at = 0..(Len(face_ids) - 1)
        /\ \A k \in 1..Len(face_ids) :
              /\ image_list.v.at[k - 1] = GrayGrids[FileOfId(k)].v.at
              /\ DOMAIN image_list.v.at[k - 1] = DOMAIN image_list.v.at[0]
              /\ \A i \in DOMAIN image_list.v.at[0] :
                    DOMAIN image_list.v.at[k - 1][i] = DOMAIN image_list.v.at[0][i]

\* A returned stack of two different images, asked for in reverse catalog order.
C4_Witness ==
    /\ pc = "done"
    /\ face_ids = <<1, 0>>
    /\ image_list.v.shape = <<2, 52, 52>>
    /\ image_list.v.at[0] # image_list.v.at[1]

\* C5: reshape(num_images, -1) of a stack of n = num_images images of shape
\* (h, w) has n rows and h*w columns, row k is image k unrolled row by row,
\* and each row reshaped to image_shape is the original grid.
C5_FlattenRoundTrip ==
    (arr_op \in {"flattened", "restored", "failed"}
        /\ arr_arg = arr_in.v.shape[1]) =>
        LET n == arr_in.v.shape[1]
            h == arr_in.v.shape[2]
            w == arr_in.v.shape[3]
        IN  /\ arr_op # "failed"
            /\ arr_out.v.shape = <<n, h * w>>
            /\ DOMAIN arr_out.v.at = 0..(n - 1)
            /\ \A k \in 0..(n - 1) :
                  /\ DOMAIN arr_out.v.at[k] = 0..(h * w - 1)
                  /\ \A i \in 0..(h - 1) : \A j \in 0..(w - 1) :
                        arr_out.v.at[k][i * w + j] = arr_in.v.at[k][i][j]
            /\ arr_op = "restored" =>
                  /\ DOMAIN arr_back.v = 0..(n - 1)
                  /\ \A k \in 0..(n - 1) :
                        /\ arr_back.v[k].shape = <<h, w>>
                        /\ arr_back.v[k].at = arr_in.v.at[k]

\* Two images of 2 x 3 pixels flattened and reshaped back.
C5_Witness ==
    /\ arr_op = "restored"
    /\ arr_in.v.shape = <<2, 2, 3>>
    /\ arr_arg = 2
    /\ arr_out.v.shape = <<2, 6>>

\* The positions of face_ids that name a decoded image of the catalog.
DecodedAt ==
    {k \in 1..Len(face_ids) :
        /\ face_ids[k] \in 0..(Len(facedb.v) - 1)
        /\ disk[FileOf(facedb.v[face_ids[k] + 1].fullpath)].status = "ok"}

\* The pass stopped at position k with the shape error of line 106 and
\* appended nothing for it.
ShapeErrorAt(k) ==
    /\ pos <= k
    /\ Len(data_list) < k
    /\ (pos = k /\ pc \notin {"open", "process"}) =>
          /\ pc = "failed"
          /\ err.v = [kind |-> "ValueError", line |-> 106]

\* C6 as stated: an image whose dimensions are not 256 x 256, also one with
\* 65536 pixels in another shape, makes the loader fail with a shape error,
\* and no grid is appended for it.
C6_WrongDimensionsRejected ==
    pc # "off" =>
        \A k \in DecodedAt :
            ~(FileOfId(k).width = Side /\ FileOfId(k).height = Side)
                => ShapeErrorAt(k)

\* C6, amended: a decoded image whose pixel count width*height is not
\* 256*256 makes the loader fail with ValueError at line 106 and no grid is
\* appended for it; an RGB image of 256*256 pixels in any other shape is not
\* rejected: the pass goes on after appending a grid for it.
C6_WrongPixelCountRejected ==
    pc # "off" =>
        \A k \in DecodedAt :
            /\ FileOfId(k).width * FileOfId(k).height # Side * Side
                  => ShapeErrorAt(k)
            /\ (FileOfId(k).bands = 3
                  /\ FileOfId(k).width * FileOfId(k).height = Side * Side
                  /\ pos = k)
                  => /\ pc # "failed"
                     /\ pc \in {"return", "line111", "done"} => Len(data_list) = k

\* A 512 x 128 image was appended, then a 255 x 256 image made the pass fail.
C6_Witness ==
    /\ pc = "failed"
    /\ err.v = [kind |-> "ValueError", line |-> 106]
    /\ pos = 2
    /\ Len(data_list) = 1
    /\ FileOfId(1).width = 2 * Side
    /\ FileOfId(2).width = Side - 1
    /\ FileOfId(2).bands = 3

\* C7 as stated: over a directory without matching files create_facedb
\* returns an empty catalog, the loader does not fail, and the first failure
\* is raised by flattening or by the PCA fit.
C7_EmptyDirectoryFailsDownstream ==
    (nb.cell # "off" /\ nb.n_jpg = 0) =>
        /\ nb.cell # "downtown-bonus" => (nb.facedb.ok /\ nb.facedb.v = 0)
        /\ nb.cell = "failed" =>
              /\ nb.err.v.cell \in {"based-stick", "swedish-blank"}
              /\ nb.err.v.kind = "ValueError"

\* The positions of open_log at which a file that cannot be opened or
\* decoded was handed to Image.open.
BadOpens ==
    {k \in DOMAIN open_log : disk[FileOf(facedb.v[open_log[k] + 1].fullpath)].status # "ok"}

\* C8: once opening or decoding an image has failed, the pass is aborted:
\* the error is the uncaught one, no later image was opened, and image_list
\* and image_shape are not bound.
C8_AbortOnOpenOrDecodeError ==
    (pc # "off" /\ BadOpens # {}) =>
        LET k == CHOOSE k \in BadOpens : \A j \in BadOpens : k <= j
            f == disk[FileOf(facedb.v[open_log[k] + 1].fullpath)]
        IN  IF pc = "process" /\ k = Len(open_log)
            THEN f.status # "unidentified"
            ELSE /\ pc = "failed"
                 /\ err.v = IF f.status = "unidentified"
                            THEN [kind |-> "UnidentifiedImageError", line |-> 103]
                            ELSE [kind |-> "OSError", line |-> 104]
                 /\ Len(open_log) = k
                 /\ open_log = SubSeq(face_ids, 1, k)
                 /\ Len(data_list) = k - 1
                 /\ ~image_list.ok
                 /\ ~image_shape.ok

\* A pass aborted by a decoding error after one image was loaded.
C8_Witness ==
    /\ pc = "failed"
    /\ err.v = [kind |-> "OSError", line |-> 104]
    /\ Len(face_ids) = 2
    /\ pos = 2
    /\ Len(data_list) = 1
    /\ ~image_list.ok

\* C9 as stated: at most one image file handle is open at any time, none is
\* open when the next image is about to be opened, and none once the loader
\* has returned or failed.
C9_HandlePerImage ==
    /\ Cardinality(open_fps) <= 1
    /\ pc \in {"open", "return", "line111", "done", "failed"} => open_fps = {}

\* The component count in force at a position that reads pca or transformed:
\* idx + 1 inside the reconstruction loop (where the variable n_components
\* keeps its value 10), the variable n_components elsewhere.
CountInForce ==
    IF nb.cell = "parallel-sudan:197" THEN nb.idx + 1 ELSE nb.n_components

Readers ==
    {"swedish-blank:180", "parallel-sudan:197", "encouraging-detroit:230",
     "expressed-explosion:256", "front-infrastructure", "realistic-grocery"}

\* C10: at every position that reads pca or transformed, both come from a
\* fit on the current feature matrix with the component count in force:
\* pca has that many components, transformed has one row per image and that
\* many columns, and the index idx about to be used is within bounds.
C10_ModelMatchesCount ==
    nb.cell \in Readers =>
        /\ nb.pca.ok /\ nb.transformed.ok /\ nb.image_flattened.ok
        /\ nb.pca.v.n_components_ = CountInForce
        /\ nb.pca.v.n_samples = nb.image_flattened.v[1]
        /\ nb.pca.v.n_features = nb.image_flattened.v[2]
        /\ nb.transformed.v = <<nb.image_list.v[1], CountInForce>>
        /\ nb.cell = "encouraging-detroit:230" =>
              nb.idx \in 0..(nb.pca.v.n_components_ - 1)
        /\ nb.cell = "expressed-explosion:256" =>
              /\ nb.idx \in 0..(nb.pca.v.n_components_ - 1)
              /\ nb.idx \in 0..(nb.weights.v - 1)

\* The last synthetic-face iteration, about to read component 49.
C10_Witness ==
    /\ nb.cell = "expressed-explosion:256"
    /\ nb.idx = 49
    /\ nb.pca.v.n_components_ = 50

=============================================================================
